---- MODULE Spec2Model ----
(***************************************************************************)
(* A model of the BIOS-settings engine of vios.py: get_bios_data (the      *)
(* plain-text and the XML parser), parse_xml_tree, compare_settings and    *)
(* the tail of compare_bios.                                               *)
(*                                                                         *)
(* Python values.  A str is a sequence of one-character strings; the       *)
(* escape character \033 is the pseudo-character "ESC".  None is the       *)
(* one-element sequence None below, whose element is not a character, so   *)
(* that None differs from every str.  A dict is a function; its iteration  *)
(* order (arbitrary in the Python this program runs on) is an input of     *)
(* the operation that iterates.                                            *)
(***************************************************************************)
EXTENDS Integers, Sequences, FiniteSets, TLC

VARIABLES
    pc,         \* position of the running operation
    baseboard,  \* self.system_info.baseboard
    file_data,  \* what get_bios_data read from the file
    bios_data,  \* the dictionary get_bios_data builds
    cb_data,    \* compare_bios: parsed current settings
    cb_order,   \* the iteration order of cb_data and of each of its menus
    gt_data,    \* compare_bios: parsed Golden Template
    diff,       \* compare_bios: the string compare_settings returned
    log,        \* the sm.error calls made so far, in order
    raised,     \* the exception that ended the operation, or "none"
    stdout,     \* what compare_bios and get_gt printed
    dir_files,  \* the files of bios_settings_dir: name -> what a read returns
    gt_file,    \* self.gt_file, without the bios_settings_dir prefix
    current_bios_file,  \* self.current_bios_file, without the prefix
    gt_url,     \* the gt_url argument of get_gt
    jarvis      \* the Jarvis server: the hrefs it lists and the text it serves

vars == <<pc, baseboard, file_data, bios_data, cb_data, cb_order, gt_data, diff,
          log, raised, stdout, dir_files, gt_file, current_bios_file, gt_url, jarvis>>

\* the state only get_gt and get_bios_settings touch
fs_vars == <<dir_files, gt_file, current_bios_file, gt_url, jarvis>>

(***************************************************************************)
(* Python values                                                           *)
(***************************************************************************)
None == <<"NoneType">>

EmptyDict == [k \in {} |-> <<>>]

Put(d, k, v) == [x \in (DOMAIN d) \cup {k} |-> IF x = k THEN v ELSE d[x]]

NL == "\n"

IsSpace(c) == c \in {" ", "\t", "\r", "\f"}

RECURSIVE Concat(_)
Concat(ss) == IF ss = <<>> THEN <<>> ELSE Head(ss) \o Concat(Tail(ss))

Drop(s, n) == SubSeq(s, n + 1, Len(s))

Take(s, n) == SubSeq(s, 1, n)

StartsWith(s, p) == Len(s) >= Len(p) /\ Take(s, Len(p)) = p

\* the indices of s that hold the character c
Positions(s, c) == {i \in 1..Len(s) : s[i] = c}

Min(S) == CHOOSE x \in S : \A y \in S : x <= y

Max(S) == CHOOSE x \in S : \A y \in S : x >= y

\* the permutations of a finite set, as sequences
RECURSIVE Orders(_)
Orders(S) ==
    IF S = {} THEN {<<>>}
    ELSE UNION {{<<x>> \o o : o \in Orders(S \ {x})} : x \in S}

\* s.split("\n"): the lines of s ('.' of a regular expression stays within one)
RECURSIVE Lines(_)
Lines(s) ==
    IF Positions(s, NL) = {} THEN <<s>>
    ELSE LET i == Min(Positions(s, NL))
         IN  <<Take(s, i - 1)>> \o Lines(Drop(s, i))

(***************************************************************************)
(* get_bios_data, plain-text path (vios.py 513-535)                        *)
(***************************************************************************)
\* each P is removed with the rest of its line and the newline after it
RECURSIVE re_sub_comment_Mutant(_, _)
re_sub_comment_Mutant(s, p) ==
    IF s = <<>> THEN <<>>
    ELSE IF StartsWith(s, p)
         THEN IF Positions(s, NL) = {} THEN <<>>
              ELSE re_sub_comment_Mutant(Drop(s, Min(Positions(s, NL))), p)
         ELSE <<Head(s)>> \o re_sub_comment_Mutant(Tail(s), p)

\* re.sub('(P.*)', '', s): each P and what follows it on its line is removed;
\* the line's newline stays.
RECURSIVE re_sub_comment(_, _)
re_sub_comment(s, p) ==
    IF s = <<>> THEN <<>>
    ELSE IF StartsWith(s, p)
         THEN IF Positions(s, NL) = {} THEN <<>>
              ELSE re_sub_comment(Drop(s, Min(Positions(s, NL)) - 1), p)
         ELSE <<Head(s)>> \o re_sub_comment(Tail(s), p)

StripComments(text, board) ==
    IF board = "SUPERMICRO"
    THEN re_sub_comment(re_sub_comment(text, <<"#">>), <<"/", "/">>)
    ELSE IF board = "INTEL" THEN re_sub_comment(text, <<";">>)
    ELSE text

\* re.split(r"\n\n", s)
RECURSIVE re_split(_)
re_split(s) ==
    LET at == {i \in 1..(Len(s) - 1) : s[i] = NL /\ s[i + 1] = NL}
    IN  IF at = {} THEN <<s>>
        ELSE <<Take(s, Min(at) - 1)>> \o re_split(Drop(s, Min(at) + 1))

\* a line in which some '[' has a ']' after it
HasHeader(l) == \E i \in Positions(l, "["), j \in Positions(l, "]") : i < j

\* re.search('\[(.*)\]', menu): the leftmost match, '.*' greedy within its
\* line.  found = FALSE is the None whose .group raises AttributeError.
re_search_header(menu) ==
    LET ls == Lines(menu)
        hs == {n \in 1..Len(ls) : HasHeader(ls[n])}
    IN  IF hs = {} THEN [found |-> FALSE, group1 |-> <<>>]
        ELSE LET l == ls[Min(hs)]
             IN  [found |-> TRUE,
                  group1 |-> SubSeq(l, Min(Positions(l, "[")) + 1,
                                       Max(Positions(l, "]")) - 1)]

HasEq(l) == Positions(l, "=") # {}

\* the line is cut at its first '='
SplitSetting_Mutant(l) ==
    <<Take(l, Min(Positions(l, "=")) - 1), Drop(l, Min(Positions(l, "=")))>>

\* one match of '(.*)=(.*)': the first group is greedy, so the line is cut at
\* its last '='
SplitSetting(l) ==
    <<Take(l, Max(Positions(l, "=")) - 1), Drop(l, Max(Positions(l, "=")))>>

\* re.findall('(.*)=(.*)', menu): one pair per line holding an '='
re_findall_settings(menu) ==
    LET ls == SelectSeq(Lines(menu), HasEq)
    IN  [n \in 1..Len(ls) |-> SplitSetting(ls[n])]

RECURSIVE DropSpaces(_)
DropSpaces(s) ==
    IF s # <<>> /\ IsSpace(Head(s)) THEN DropSpaces(Tail(s)) ELSE s

\* a run becomes one space
RECURSIVE re_sub_spaces_Mutant(_)
re_sub_spaces_Mutant(s) ==
    IF s = <<>> THEN <<>>
    ELSE IF Len(s) >= 2 /\ IsSpace(s[1]) /\ IsSpace(s[2])
         THEN <<" ">> \o re_sub_spaces_Mutant(DropSpaces(s))
         ELSE <<Head(s)>> \o re_sub_spaces_Mutant(Tail(s))

\* re.sub('\s\s+', '', s): every run of two or more whitespace characters is
\* removed; a single one stays
RECURSIVE re_sub_spaces(_)
re_sub_spaces(s) ==
    IF s = <<>> THEN <<>>
    ELSE IF Len(s) >= 2 /\ IsSpace(s[1]) /\ IsSpace(s[2])
         THEN re_sub_spaces(DropSpaces(s))
         ELSE <<Head(s)>> \o re_sub_spaces(Tail(s))

\* the loop of line 534 over setting_list, on the dictionary bios_data[menu_name]
RECURSIVE StoreSettings(_, _)
StoreSettings(settings, setting_list) ==
    IF setting_list = <<>> THEN settings
    ELSE StoreSettings(Put(settings, Head(setting_list)[1],
                           re_sub_spaces(Head(setting_list)[2])),
                       Tail(setting_list))

Warn(msg, arg) == [msg |-> msg, arg |-> arg]

\* the subscript bios_data[menu_name] of line 535: a KeyError when the
\* dictionary has no such key
MenuLookupFails(data, menu_name) == menu_name \notin DOMAIN data

\* the key of a section is made only when the section holds a setting
ParseMenu_Mutant(st, menu) ==
    LET m == re_search_header(menu)
        menu_name == IF m.found THEN m.group1 ELSE <<>>
        log1 == IF ~m.found /\ menu # <<>>
                THEN Append(st.log, Warn("no menu name", menu))
                ELSE st.log
        data1 == IF menu_name # <<>> /\ re_findall_settings(menu) # <<>>
                 THEN Put(st.bios_data, menu_name, EmptyDict)
                 ELSE st.bios_data
        setting_list == re_findall_settings(menu)
    IN  IF setting_list # <<>> /\ MenuLookupFails(data1, menu_name)
        THEN [bios_data |-> data1, log |-> log1, raised |-> "KeyError"]
        ELSE IF setting_list = <<>>
        THEN [bios_data |-> data1, log |-> log1, raised |-> "none"]
        ELSE [bios_data |-> Put(data1, menu_name,
                                StoreSettings(data1[menu_name], setting_list)),
              log |-> log1, raised |-> "none"]

\* a block without a header ends the parse
ParseMenu_Fatal_Mutant(st, menu) ==
    LET m == re_search_header(menu)
        menu_name == IF m.found THEN m.group1 ELSE <<>>
        log1 == IF ~m.found /\ menu # <<>>
                THEN Append(st.log, Warn("no menu name", menu))
                ELSE st.log
        data1 == IF menu_name # <<>>
                 THEN Put(st.bios_data, menu_name, EmptyDict)
                 ELSE st.bios_data
        setting_list == re_findall_settings(menu)
    IN  IF ~m.found /\ menu # <<>>
        THEN [bios_data |-> st.bios_data, log |-> st.log, raised |-> "AttributeError"]
        ELSE IF setting_list # <<>> /\ MenuLookupFails(data1, menu_name)
        THEN [bios_data |-> data1, log |-> log1, raised |-> "KeyError"]
        ELSE IF setting_list = <<>>
        THEN [bios_data |-> data1, log |-> log1, raised |-> "none"]
        ELSE [bios_data |-> Put(data1, menu_name,
                                StoreSettings(data1[menu_name], setting_list)),
              log |-> log1, raised |-> "none"]

\* one pass of the loop of line 521, on st = [bios_data, log, raised]
ParseMenu(st, menu) ==
    LET m == re_search_header(menu)
        menu_name == IF m.found THEN m.group1 ELSE <<>>
        log1 == IF ~m.found /\ menu # <<>>
                THEN Append(st.log, Warn("no menu name", menu))
                ELSE st.log
        data1 == IF menu_name # <<>>
                 THEN Put(st.bios_data, menu_name, EmptyDict)
                 ELSE st.bios_data
        setting_list == re_findall_settings(menu)
    IN  IF setting_list # <<>> /\ MenuLookupFails(data1, menu_name)
        THEN [bios_data |-> data1, log |-> log1, raised |-> "KeyError"]
        ELSE IF setting_list = <<>>
        THEN [bios_data |-> data1, log |-> log1, raised |-> "none"]
        ELSE [bios_data |-> Put(data1, menu_name,
                                StoreSettings(data1[menu_name], setting_list)),
              log |-> log1, raised |-> "none"]

RECURSIVE ParseMenus(_, _)
ParseMenus(st, menu_list) ==
    IF menu_list = <<>> \/ st.raised # "none" THEN st
    ELSE ParseMenus(ParseMenu(st, Head(menu_list)), Tail(menu_list))

\* the else branch of line 513
parse_plain(text, board) ==
    ParseMenus([bios_data |-> EmptyDict, log |-> <<>>, raised |-> "none"],
               re_split(StripComments(text, board)))

(***************************************************************************)
(* parse_xml_tree (vios.py 417-466).  An element of the document that      *)
(* ET.fromstring builds is [tag, attrib, text, kids]: attrib a dictionary, *)
(* text a str or None, kids the sequence of its child elements.  Every     *)
(* Menu and Setting element carries a name attribute.                      *)
(***************************************************************************)
Element(tag, attrib, text, kids) ==
    [tag |-> tag, attrib |-> attrib, text |-> text, kids |-> kids]

\* element.find(tag): the first direct child with that tag; found = FALSE is
\* the None whose .text raises AttributeError
Find(element, tag) ==
    LET at == {i \in 1..Len(element.kids) : element.kids[i].tag = tag}
    IN  IF at = {} THEN [found |-> FALSE, text |-> None]
        ELSE [found |-> TRUE, text |-> element.kids[Min(at)].text]

\* the String branch reads the text of the Setting itself
TypeLookup_Mutant(element) ==
    IF "type" \notin DOMAIN element.attrib
    THEN [raised |-> "KeyError", set |-> FALSE, value |-> None]
    ELSE IF element.attrib["type"] = <<"P", "a", "s", "s", "w", "o", "r", "d">>
    THEN IF element.kids = <<>>
         THEN [raised |-> "IndexError", set |-> FALSE, value |-> None]
         ELSE IF ~Find(element.kids[1], "HasPassword").found
         THEN [raised |-> "AttributeError", set |-> FALSE, value |-> None]
         ELSE [raised |-> "none", set |-> TRUE,
               value |-> Find(element.kids[1], "HasPassword").text]
    ELSE IF element.attrib["type"] = <<"S", "t", "r", "i", "n", "g">>
    THEN IF ~Find(element, "StringValue").found
         THEN [raised |-> "AttributeError", set |-> FALSE, value |-> None]
         ELSE [raised |-> "none", set |-> TRUE,
               value |-> element.text]
    ELSE [raised |-> "none", set |-> FALSE, value |-> None]

\* lines 448-454: the lookup by type, tried when none of the three attributes
\* is there.  set = FALSE with raised = "none": no branch of the if assigned.
TypeLookup(element) ==
    IF "type" \notin DOMAIN element.attrib
    THEN [raised |-> "KeyError", set |-> FALSE, value |-> None]
    ELSE IF element.attrib["type"] = <<"P", "a", "s", "s", "w", "o", "r", "d">>
    THEN IF element.kids = <<>>
         THEN [raised |-> "IndexError", set |-> FALSE, value |-> None]
         ELSE IF ~Find(element.kids[1], "HasPassword").found
         THEN [raised |-> "AttributeError", set |-> FALSE, value |-> None]
         ELSE [raised |-> "none", set |-> TRUE,
               value |-> Find(element.kids[1], "HasPassword").text]
    ELSE IF element.attrib["type"] = <<"S", "t", "r", "i", "n", "g">>
    THEN IF ~Find(element, "StringValue").found
         THEN [raised |-> "AttributeError", set |-> FALSE, value |-> None]
         ELSE [raised |-> "none", set |-> TRUE,
               value |-> Find(element, "StringValue").text]
    ELSE [raised |-> "none", set |-> FALSE, value |-> None]

\* lines 455-458, the handler of the innermost KeyError: it stores None, then
\* formats its message with element.attrib['type'], a second KeyError when
\* the type is absent
UnknownSetting(st, element) ==
    IF "type" \notin DOMAIN element.attrib
    THEN [st EXCEPT !.settings = Put(@, element.attrib["name"], None),
                    !.raised = "KeyError"]
    ELSE [st EXCEPT !.settings = Put(@, element.attrib["name"], None),
                    !.log = Append(@, Warn("unknown setting", element.attrib["name"]))]

\* checkedStatus is tried before selectedOption
ParseSetting_Mutant(st, element) ==
    LET name == element.attrib["name"]
        a == element.attrib
    IN  IF "checkedStatus" \in DOMAIN a
        THEN [st EXCEPT !.settings = Put(@, name, a["checkedStatus"])]
        ELSE IF "selectedOption" \in DOMAIN a
        THEN [st EXCEPT !.settings = Put(@, name, a["selectedOption"])]
        ELSE IF "settingValue" \in DOMAIN a
        THEN [st EXCEPT !.settings = Put(@, name, a["settingValue"])]
        ELSE LET t == TypeLookup(element)
             IN  IF t.raised = "KeyError" THEN UnknownSetting(st, element)
                 ELSE IF t.raised # "none" THEN [st EXCEPT !.raised = t.raised]
                 ELSE IF t.set THEN [st EXCEPT !.settings = Put(@, name, t.value)]
                 ELSE st

\* the attributes of the Setting are stored, not the value of selectedOption
ParseSetting_Attrib_Mutant(st, element) ==
    LET name == element.attrib["name"]
        a == element.attrib
    IN  IF "selectedOption" \in DOMAIN a
        THEN [st EXCEPT !.settings = Put(@, name, a)]
        ELSE IF "checkedStatus" \in DOMAIN a
        THEN [st EXCEPT !.settings = Put(@, name, a["checkedStatus"])]
        ELSE IF "settingValue" \in DOMAIN a
        THEN [st EXCEPT !.settings = Put(@, name, a["settingValue"])]
        ELSE LET t == TypeLookup(element)
             IN  IF t.raised = "KeyError" THEN UnknownSetting(st, element)
                 ELSE IF t.raised # "none" THEN [st EXCEPT !.raised = t.raised]
                 ELSE IF t.set THEN [st EXCEPT !.settings = Put(@, name, t.value)]
                 ELSE st

\* lines 438-458 for one Setting element, on st = [bios_data, settings, log, raised]
ParseSetting(st, element) ==
    LET name == element.attrib["name"]
        a == element.attrib
    IN  IF "selectedOption" \in DOMAIN a
        THEN [st EXCEPT !.settings = Put(@, name, a["selectedOption"])]
        ELSE IF "checkedStatus" \in DOMAIN a
        THEN [st EXCEPT !.settings = Put(@, name, a["checkedStatus"])]
        ELSE IF "settingValue" \in DOMAIN a
        THEN [st EXCEPT !.settings = Put(@, name, a["settingValue"])]
        ELSE LET t == TypeLookup(element)
             IN  IF t.raised = "KeyError" THEN UnknownSetting(st, element)
                 ELSE IF t.raised # "none" THEN [st EXCEPT !.raised = t.raised]
                 ELSE IF t.set THEN [st EXCEPT !.settings = Put(@, name, t.value)]
                 ELSE st

RECURSIVE parse_xml_tree(_, _, _, _)
RECURSIVE XmlLoop(_, _, _)
\* the loop of line 437 over the elements of tree
XmlLoop(st, path, tree) ==
    IF tree = <<>> \/ st.raised # "none" THEN st
    ELSE LET element == Head(tree)
         IN  IF element.tag = "Setting"
             THEN XmlLoop(ParseSetting(st, element), path, Tail(tree))
             ELSE IF element.tag = "Menu"
             THEN LET r == parse_xml_tree(st.bios_data, st.log,
                                          path \o <<"|">> \o element.attrib["name"],
                                          element.kids)
                  IN  XmlLoop([st EXCEPT !.bios_data = r.bios_data,
                                         !.log = r.log,
                                         !.raised = r.raised],
                              path, Tail(tree))
             ELSE XmlLoop(st, path, Tail(tree))

\* parse_xml_tree(bios_data, path, tree); the log is threaded through as well
parse_xml_tree(data, lg, path, tree) ==
    LET st == XmlLoop([bios_data |-> data, settings |-> EmptyDict,
                       log |-> lg, raised |-> "none"], path, tree)
    IN  [bios_data |-> IF st.raised = "none" /\ st.settings # EmptyDict
                       THEN Put(st.bios_data, path, st.settings)
                       ELSE st.bios_data,
         log |-> st.log, raised |-> st.raised]

Main == <<"M", "a", "i", "n">>

\* Main is parsed like every other menu
RECURSIVE TopLoop_Mutant(_, _)
TopLoop_Mutant(st, tree) ==
    IF tree = <<>> \/ st.raised # "none" THEN st
    ELSE LET element == Head(tree)
         IN  IF element.tag = "Menu"
             THEN TopLoop_Mutant(parse_xml_tree(st.bios_data, st.log,
                                         element.attrib["name"], element.kids),
                          Tail(tree))
             ELSE TopLoop_Mutant(st, Tail(tree))

\* the loop of line 508 over the children of xml_root
RECURSIVE TopLoop(_, _)
TopLoop(st, tree) ==
    IF tree = <<>> \/ st.raised # "none" THEN st
    ELSE LET element == Head(tree)
         IN  IF element.tag = "Menu" /\ element.attrib["name"] # Main
             THEN TopLoop(parse_xml_tree(st.bios_data, st.log,
                                         element.attrib["name"], element.kids),
                          Tail(tree))
             ELSE TopLoop(st, Tail(tree))

\* lines 498-510: the XML branch, on the document ET.fromstring returned
parse_xml(xml_root) ==
    TopLoop([bios_data |-> EmptyDict, log |-> <<>>, raised |-> "none"],
            xml_root.kids)

(***************************************************************************)
(* get_bios_data (vios.py 468-537).  A file is [text, xml_root]: the text  *)
(* read from it and the document ET.fromstring builds from that text       *)
(* (tag "ParseError" when it raises ET.ParseError).                        *)
(***************************************************************************)
XmlVersion == <<"x", "m", "l", " ", "v", "e", "r", "s", "i", "o", "n">>

\* re.search('<?xml version.*>', s): "xml version" with a '>' later on its line
re_search_xml(s) ==
    \E i \in 1..Len(s) : \E j \in (i + Len(XmlVersion))..Len(s) :
        /\ SubSeq(s, i, i + Len(XmlVersion) - 1) = XmlVersion
        /\ s[j] = ">"
        /\ \A k \in i..j : s[k] # NL

NoDocument == Element("ParseError", EmptyDict, None, <<>>)

get_bios_data(file, board) ==
    IF re_search_xml(file.text)
    THEN IF file.xml_root.tag = "ParseError"
         THEN [bios_data |-> EmptyDict,
               log |-> <<Warn("unable to parse xml", <<>>)>>,
               raised |-> "SystemExit"]
         ELSE parse_xml(file.xml_root)
    ELSE parse_plain(file.text, board)

(***************************************************************************)
(* The inputs                                                              *)
(***************************************************************************)
MaxLines == 4

MaxNodes == 4

Boards == {"INTEL", "SUPERMICRO", "OTHER"}

SeqsUpTo(S, n) == UNION {[1..k -> S] : k \in 0..n}

\* the lines plain-text files are made of: two headers, a blank line, two
\* settings and a comment line of each dialect
PlainLines ==
    { <<"[", "A", "]">>,
      <<"[", "B", "]">>,
      <<>>,
      <<"k", "=", "a", " ", "b", " ", " ", "c", "#", "w">>,
      <<"j", "=", "a", "=", "b", ";", "w">>,
      <<"#", "c">>,
      <<";", "c">>,
      <<"/", "/", "c">> }

ExampleText ==
    <<"[", "M", "a", "i", "n", "]", "\n", "Q", "u", "i", "e", "t", " ", "B", "o", "o", "t", "=", "E", "n", "a", "b", "l", "e", "d", " ", " ", "\n", "P", "o", "s", "t", " ", "E", "r", "r", "o", "r", " ", "P", "a", "u", "s", "e", "=", "D", "i", "s", "a", "b", "l", "e", "d", "\n">>

TextOf(lines) == Concat([n \in 1..Len(lines) |-> lines[n] \o <<NL>>])

\* a setting line with spaces around its name and more than one '='
SpacedText ==
    <<"[", "S", "]", "\n", " ", "x", " ", "=", " ", "y", " ", "=", "z", "\n">>

PlainFiles ==
    {[text |-> t, xml_root |-> NoDocument] :
        t \in {TextOf(ls) : ls \in SeqsUpTo(PlainLines, MaxLines)} \cup {ExampleText, SpacedText}}

Enabled == <<"E", "n", "a", "b", "l", "e", "d">>
Disabled == <<"D", "i", "s", "a", "b", "l", "e", "d">>
Checked == <<"C", "h", "e", "c", "k", "e", "d">>
Abc123 == <<"a", "b", "c", "1", "2", "3">>
Adv == <<"A", "d", "v">>
Boot == <<"B", "o", "o", "t">>
QuietBoot == <<"Q", "u", "i", "e", "t", " ", "B", "o", "o", "t">>
BootMode == <<"B", "o", "o", "t", " ", "M", "o", "d", "e">>

Attrib(name, pairs) ==
    [a \in {"name"} \cup {p[1] : p \in pairs} |->
        IF a = "name" THEN name ELSE (CHOOSE p \in pairs : p[1] = a)[2]]

Setting(name, pairs, kids) == Element("Setting", Attrib(name, pairs), None, kids)

Menu(name, kids) == Element("Menu", Attrib(name, {}), None, kids)

Leaf(tag, text) == Element(tag, EmptyDict, text, <<>>)

\* the settings the documents of varying shape are built from: two that
\* resolve by an attribute and one of a type the lookup does not know
ShapeSettings ==
    { Setting(QuietBoot, {<<"selectedOption", Enabled>>}, <<>>),
      Setting(BootMode, {<<"settingValue", Disabled>>}, <<>>),
      Setting(BootMode, {<<"type", <<"N", "u", "m", "e", "r", "i", "c">>>>}, <<>>) }

MenuNames == {Main, Adv}

\* the ordered forests of n elements: settings are leaves, menus hold a forest
RECURSIVE Forests(_)
RECURSIVE Trees(_)
Trees(n) ==
    (IF n = 1 THEN ShapeSettings ELSE {})
        \cup {Menu(name, kids) : name \in MenuNames, kids \in Forests(n - 1)}

Forests(n) ==
    IF n = 0 THEN {<<>>}
    ELSE UNION {{<<t>> \o f : t \in Trees(k), f \in Forests(n - k)} : k \in 1..n}

\* every way a Setting element can meet the lookup chain of lines 439-458
AttrSets ==
    SUBSET { <<"selectedOption", Enabled>>, <<"checkedStatus", Checked>>,
             <<"settingValue", Disabled>> }

TypeSets ==
    { {}, {<<"type", <<"P", "a", "s", "s", "w", "o", "r", "d">>>>}, {<<"type", <<"S", "t", "r", "i", "n", "g">>>>}, {<<"type", <<"N", "u", "m", "e", "r", "i", "c">>>>} }

KidSets ==
    { <<>>,
      <<Leaf("StringValue", Abc123)>>,
      <<Leaf("StringValue", None)>>,
      <<Element("Information", EmptyDict, None, <<Leaf("HasPassword", <<"F", "a", "l", "s", "e">>)>>)>>,
      <<Element("Information", EmptyDict, None, <<>>)>> }

AnySettings ==
    {Setting(QuietBoot, a \cup t, k) : a \in AttrSets, t \in TypeSets, k \in KidSets}

\* one setting of any kind between a plain one and a nested menu, with a
\* second top-level menu after it
LookupRoots ==
    {<<Menu(Adv, <<Setting(BootMode, {<<"settingValue", Disabled>>}, <<>>),
                   s,
                   Menu(Main, <<Setting(BootMode, {<<"checkedStatus", Checked>>}, <<>>)>>)>>),
       Menu(Main, <<Setting(QuietBoot, {<<"selectedOption", Enabled>>}, <<>>)>>),
       Menu(Boot, <<Setting(QuietBoot, {<<"selectedOption", Enabled>>}, <<>>)>>)>> :
        s \in AnySettings}

XmlDeclaration == <<"<", "?", "x", "m", "l", " ", "v", "e", "r", "s", "i", "o", "n", "=", "\"", "1", ".", "0", "\"", "?", ">", "\n">>

XmlFiles ==
    {[text |-> XmlDeclaration, xml_root |-> Element("BiosCfg", EmptyDict, None, kids)] :
        kids \in LookupRoots \cup UNION {Forests(n) : n \in 0..MaxNodes}}

\* a file whose text claims to be XML and is not well-formed
BrokenXmlFile == [text |-> XmlDeclaration, xml_root |-> NoDocument]

Files == PlainFiles \cup XmlFiles \cup {BrokenXmlFile}

\* file_data before fh.read() has returned
NoFile == [text |-> None, xml_root |-> NoDocument]

\* the server of an operation that sends no request
NoServer == [up |-> FALSE, hrefs |-> {}, file |-> NoFile]

(***************************************************************************)
(* The parser as a state machine: get_bios_data on one file                *)
(***************************************************************************)
InitParse ==
    /\ pc = "open"
    /\ baseboard \in Boards
    /\ file_data = NoFile
    /\ bios_data = EmptyDict
    /\ cb_data = EmptyDict
    /\ cb_order = [menus |-> <<>>, settings |-> EmptyDict]
    /\ gt_data = EmptyDict
    /\ diff = <<>>
    /\ log = <<>>
    /\ raised = "none"
    /\ stdout = <<>>
    /\ dir_files = EmptyDict
    /\ gt_file = <<>>
    /\ current_bios_file = <<>>
    /\ gt_url = None
    /\ jarvis = NoServer

\* lines 488-490: the file is read
ReadFile ==
    /\ pc = "open"
    /\ \E f \in Files : file_data' = f
    /\ pc' = "parse"
    /\ UNCHANGED <<baseboard, bios_data, cb_data, cb_order, gt_data, diff, log, raised, stdout, fs_vars>>

\* the IOError leaves get_bios_data
ReadFails_Mutant ==
    /\ pc = "open"
    /\ raised' = "IOError"
    /\ pc' = "done"
    /\ UNCHANGED <<baseboard, file_data, bios_data, cb_data, cb_order, gt_data, diff, log, stdout, fs_vars>>

\* lines 491-493: the file cannot be read
ReadFails ==
    /\ pc = "open"
    /\ log' = Append(log, Warn("unable to read", <<>>))
    /\ raised' = "SystemExit"
    /\ pc' = "done"
    /\ UNCHANGED <<baseboard, file_data, bios_data, cb_data, cb_order, gt_data, diff, stdout, fs_vars>>

\* lines 495-537: the contents are parsed and bios_data is returned, or an
\* exception leaves get_bios_data
ParseFile ==
    /\ pc = "parse"
    /\ LET r == get_bios_data(file_data, baseboard)
       IN  /\ bios_data' = r.bios_data
           /\ log' = log \o r.log
           /\ raised' = r.raised
    /\ pc' = "done"
    /\ UNCHANGED <<baseboard, file_data, cb_data, cb_order, gt_data, diff, stdout, fs_vars>>

NextParse == ReadFile \/ ReadFails \/ ParseFile

SpecParse == InitParse /\ [][NextParse]_vars

(***************************************************************************)
(* compare_settings (vios.py 539-570)                                      *)
(***************************************************************************)
RED == <<"ESC", "[", "3", "1", "m">>
GREEN == <<"ESC", "[", "3", "2", "m">>
BOLD == <<"ESC", "[", "1", "m">>
END == <<"ESC", "[", "0", "m">>

\* lines 566-568: what one differing setting adds to diff
DiffEntry(path, key, cb_value, gt_value) ==
    BOLD \o path \o <<" ", "-", ">", " ">> \o key \o <<NL>> \o END
        \o <<"\t", " ", "C", "u", "r", "e", "n", "t", " ", "B", "i", "o", "s", " ", "S", "e", "t", "t", "i", "n", "g", ":", " ">>
        \o RED \o cb_value \o END \o <<NL>>
        \o <<"\t", " ", "G", "o", "l", "d", "e", "n", " ", "T", "e", "m", "p", "l", "a", "t", "e", " ", "S", "e", "t", "t", "i", "n", "g", ":", " ">>
        \o GREEN \o gt_value \o END \o <<NL, NL>>

\* str + None raises TypeError
ConcatFails(cb_value, gt_value) == cb_value = None \/ gt_value = None

Differ_Mutant(cb_value, gt_value) == cb_value # gt_value \/ cb_value = None

\* line 565
Differ(cb_value, gt_value) == cb_value # gt_value

LenMismatch_Mutant(cb, gt) == Cardinality(DOMAIN cb) > Cardinality(DOMAIN gt)

\* line 552
LenMismatch(cb, gt) == Cardinality(DOMAIN cb) # Cardinality(DOMAIN gt)

\* The iteration orders of the dictionaries of cb_data are the input order:
\* order.menus lists the keys of cb_data, order.settings[m] those of cb_data[m].
\* is_dict is the test of line 561: in a SettingsTree the values of the tree
\* are dictionaries and the values of a menu are not.
RECURSIVE compare_settings(_, _, _, _, _, _)
RECURSIVE CompareLoop(_, _, _, _, _, _, _)
RECURSIVE CompareLoop_Mutant(_, _, _, _, _, _, _)
RECURSIVE CompareLoop_Silent_Mutant(_, _, _, _, _, _, _)
\* a new entry is put in front of diff
CompareLoop_Mutant(st, cb, gt, path, keys, is_dict, order) ==
    IF keys = <<>> \/ st.raised # "none" THEN st
    ELSE LET key == Head(keys)
             next ==
                 IF key \notin DOMAIN gt
                 THEN [st EXCEPT !.log = Append(@, Warn("menu not found", <<>>))]
                 ELSE IF is_dict
                 THEN compare_settings(cb[key], gt[key], key, st, FALSE, order)
                 ELSE IF Differ(cb[key], gt[key])
                 THEN IF ConcatFails(cb[key], gt[key])
                      THEN [st EXCEPT !.raised = "TypeError"]
                      ELSE [st EXCEPT !.diff = DiffEntry(path, key, cb[key], gt[key]) \o @]
                 ELSE st
         IN  CompareLoop_Mutant(next, cb, gt, IF is_dict /\ key \in DOMAIN gt THEN key ELSE path,
                                Tail(keys), is_dict, order)

\* a key that gt does not have is passed over without a warning
CompareLoop_Silent_Mutant(st, cb, gt, path, keys, is_dict, order) ==
    IF keys = <<>> \/ st.raised # "none" THEN st
    ELSE LET key == Head(keys)
             next ==
                 IF key \notin DOMAIN gt
                 THEN st
                 ELSE IF is_dict
                 THEN compare_settings(cb[key], gt[key], key, st, FALSE, order)
                 ELSE IF Differ(cb[key], gt[key])
                 THEN IF ConcatFails(cb[key], gt[key])
                      THEN [st EXCEPT !.raised = "TypeError"]
                      ELSE [st EXCEPT !.diff = @ \o DiffEntry(path, key, cb[key], gt[key])]
                 ELSE st
         IN  CompareLoop_Silent_Mutant(next, cb, gt,
                                       IF is_dict /\ key \in DOMAIN gt THEN key ELSE path,
                                       Tail(keys), is_dict, order)

CompareLoop(st, cb, gt, path, keys, is_dict, order) ==
    IF keys = <<>> \/ st.raised # "none" THEN st
    ELSE LET key == Head(keys)
             next ==
                 IF key \notin DOMAIN gt
                 THEN [st EXCEPT !.log = Append(@, Warn("menu not found", <<>>))]
                 ELSE IF is_dict
                 THEN compare_settings(cb[key], gt[key], key, st, FALSE, order)
                 ELSE IF Differ(cb[key], gt[key])
                 THEN IF ConcatFails(cb[key], gt[key])
                      THEN [st EXCEPT !.raised = "TypeError"]
                      ELSE [st EXCEPT !.diff = @ \o DiffEntry(path, key, cb[key], gt[key])]
                 ELSE st
         IN  CompareLoop(next, cb, gt, IF is_dict /\ key \in DOMAIN gt THEN key ELSE path,
                         Tail(keys), is_dict, order)

\* the length test is made on the menu paths only
compare_settings_Mutant(cb, gt, path, st, is_dict, order) ==
    IF is_dict /\ LenMismatch(cb, gt)
    THEN [st EXCEPT !.log = Append(@, Warn("settings do not match", <<>>)),
                    !.raised = "SystemExit"]
    ELSE CompareLoop(st, cb, gt, path,
                     IF is_dict THEN order.menus ELSE order.settings[path],
                     is_dict, order)

\* st = [diff, log, raised] carries the diff parameter in and the result out
compare_settings(cb, gt, path, st, is_dict, order) ==
    IF LenMismatch(cb, gt)
    THEN [st EXCEPT !.log = Append(@, Warn("settings do not match", <<>>)),
                    !.raised = "SystemExit"]
    ELSE CompareLoop(st, cb, gt, path,
                     IF is_dict THEN order.menus ELSE order.settings[path],
                     is_dict, order)

\* the iteration orders a tree can have
TreeOrders(cb) ==
    {[menus |-> ms, settings |-> ss] :
        ms \in Orders(DOMAIN cb),
        ss \in {f \in [DOMAIN cb -> UNION {Orders(DOMAIN cb[m]) : m \in DOMAIN cb}] :
                   \A m \in DOMAIN cb : f[m] \in Orders(DOMAIN cb[m])}}

(***************************************************************************)
(* The comparison as a state machine: lines 595-602 of compare_bios on two *)
(* parsed trees                                                            *)
(***************************************************************************)
MaxLeaves == 3

BiosMain == <<"B", "I", "O", "S", ":", ":", "M", "a", "i", "n">>

MenuPaths == {BiosMain, Adv, Boot}

SettingNames == {QuietBoot, BootMode}

LeafValues == {Enabled, Disabled, None}

\* the menus of exactly k settings
Menus(k) ==
    UNION {[names -> LeafValues] : names \in {s \in SUBSET SettingNames : Cardinality(s) = k}}

\* the SettingsTrees over the menu paths `paths` with at most n settings in all;
\* the two trees of a comparison hold at most MaxLeaves settings together, or
\* are the same tree
RECURSIVE Trees2(_, _)
Trees2(paths, n) ==
    IF paths = {} THEN {EmptyDict}
    ELSE LET p == CHOOSE p \in paths : TRUE
         IN  Trees2(paths \ {p}, n)
             \cup UNION {{Put(t, p, m) : m \in Menus(k), t \in Trees2(paths \ {p}, n - k)} :
                           k \in 0..n}

RECURSIVE SumOver(_, _)
SumOver(f, S) ==
    IF S = {} THEN 0
    ELSE LET x == CHOOSE x \in S : TRUE IN f[x] + SumOver(f, S \ {x})

NumLeaves(tree) == SumOver([p \in DOMAIN tree |-> Cardinality(DOMAIN tree[p])], DOMAIN tree)

PostErrorPause == <<"P", "o", "s", "t", " ", "E", "r", "r", "o", "r", " ", "P", "a", "u", "s", "e">>

\* the trees of the menus and setting names of tree, with any string leaves
Revalued(tree) ==
    {g \in [DOMAIN tree -> UNION {[DOMAIN tree[m] -> {Enabled, Disabled}] : m \in DOMAIN tree}] :
        \A m \in DOMAIN tree : DOMAIN g[m] = DOMAIN tree[m]}

\* tree with the setting s of its menu m under the name PostErrorPause
Rename(tree, m, s) ==
    [tree EXCEPT ![m] = [x \in (DOMAIN tree[m] \ {s}) \cup {PostErrorPause} |->
                            IF x = PostErrorPause THEN tree[m][s] ELSE tree[m][x]]]

\* the templates written for the system of tree when every setting of tree
\* is Enabled: the same menus and settings with values of their own, one
\* setting possibly under another name
Templates(tree) ==
    IF \A m \in DOMAIN tree : \A s \in DOMAIN tree[m] : tree[m][s] = Enabled
    THEN UNION {{g} \cup UNION {{Rename(g, m, s) : s \in DOMAIN g[m]} : m \in DOMAIN g} :
                   g \in Revalued(tree)}
    ELSE {}

NoDifferences == <<"N", "o", " ", "d", "i", "f", "f", "e", "r", "e", "n", "c", "e", "s", " ", "w", "e", "r", "e", " ", "f", "o", "u", "n", "d", " ", "b", "e", "t", "w", "e", "e", "n", " ", "t", "h", "e", " ", "t", "w", "o", " ", "f", "i", "l", "e", "s", "!">>

FoundDifferences == <<"V", "i", "o", "s", " ", "f", "o", "u", "n", "d", " ", "d", "i", "f", "f", "e", "r", "e", "n", "c", "e", "s", " ", "b", "e", "t", "w", "e", "e", "n", " ", "t", "h", "e", " ", "C", "u", "r", "r", "e", "n", "t", " ", "B", "I", "O", "S", " ", "s", "e", "t", "t", "i", "n", "g", "s", " ", "a", "n", "d", " ", "t", "h", "e", " ", "G", "o", "l", "d", "e", "n", " ", "T", "e", "m", "p", "l", "a", "t", "e", "!", "\n", "D", "i", "f", "f", "e", "r", "e", "n", "c", "e", "s", " ", "a", "r", "e", ":", "\n", "\n">>

InitCompare ==
    /\ pc = "compare"
    /\ baseboard \in {"SUPERMICRO"}
    /\ file_data = NoFile
    /\ bios_data = EmptyDict
    /\ cb_data \in Trees2(MenuPaths, MaxLeaves)
    /\ cb_order \in TreeOrders(cb_data)
    /\ gt_data \in Trees2(MenuPaths, MaxLeaves - NumLeaves(cb_data)) \cup {cb_data}
                      \cup Templates(cb_data)
    /\ diff = <<>>
    /\ log = <<>>
    /\ raised = "none"
    /\ stdout = <<>>
    /\ dir_files = EmptyDict
    /\ gt_file = <<>>
    /\ current_bios_file = <<>>
    /\ gt_url = None
    /\ jarvis = NoServer

\* line 595: diff = self.compare_settings(cb_data, gt_data)
CompareSettings ==
    /\ pc = "compare"
    /\ LET r == compare_settings(cb_data, gt_data, <<>>,
                                 [diff |-> <<>>, log |-> log, raised |-> "none"],
                                 TRUE, cb_order)
       IN  /\ diff' = IF r.raised = "none" THEN r.diff ELSE diff
           /\ log' = r.log
           /\ raised' = r.raised
           /\ pc' = IF r.raised = "none" THEN "report" ELSE "done"
    /\ UNCHANGED <<baseboard, file_data, bios_data, cb_data, cb_order, gt_data, stdout, fs_vars>>

\* lines 597-598
PrintNoDifferences ==
    /\ pc = "report"
    /\ diff = <<>>
    /\ stdout' = Append(stdout, GREEN \o NoDifferences \o END)
    /\ pc' = "done"
    /\ UNCHANGED <<baseboard, file_data, bios_data, cb_data, cb_order, gt_data, diff, log, raised, fs_vars>>

\* lines 599-602
PrintDifferences ==
    /\ pc = "report"
    /\ diff # <<>>
    /\ stdout' = stdout \o <<RED \o FoundDifferences \o END, diff>>
    /\ pc' = "done"
    /\ UNCHANGED <<baseboard, file_data, bios_data, cb_data, cb_order, gt_data, diff, log, raised, fs_vars>>

NextCompare == CompareSettings \/ PrintNoDifferences \/ PrintDifferences

SpecCompare == InitCompare /\ [][NextCompare]_vars

(***************************************************************************)
(* The claims about compare_settings and compare_bios, under SpecCompare   *)
(***************************************************************************)
Compared == pc \in {"report", "done"}

\* how often the string part occurs in the string s
Occurrences(s, part) ==
    Cardinality({i \in 1..(Len(s) + 1 - Len(part)) : SubSeq(s, i, i + Len(part) - 1) = part})

\* C1: a tree compared with itself gives an empty diff and no failure, whatever
\* its menus, settings and leaf values (None included).
C1_SelfCompareIsEmpty ==
    (Compared /\ cb_data = gt_data) => (raised = "none" /\ diff = <<>>)

C1_Witness ==
    /\ pc = "done"
    /\ cb_data = gt_data
    /\ Cardinality(DOMAIN cb_data) >= 2
    /\ \E m \in DOMAIN cb_data : \E s \in DOMAIN cb_data[m] : cb_data[m][s] = None
    /\ stdout = <<GREEN \o NoDifferences \o END>>

\* C2: when the two trees differ in their number of top-level menu paths,
\* compare_settings ends by exit() with no diff, and compare_bios prints neither
\* the no-differences line nor a list of differences.
C2_MenuCountMismatchIsFatal ==
    (Compared /\ Cardinality(DOMAIN cb_data) # Cardinality(DOMAIN gt_data))
        => /\ raised = "SystemExit"
           /\ pc = "done"
           /\ diff = <<>>
           /\ stdout = <<>>
           /\ log = <<Warn("settings do not match", <<>>)>>

C2_Witness ==
    /\ pc = "done"
    /\ Cardinality(DOMAIN cb_data) = 3
    /\ Cardinality(DOMAIN gt_data) = 2
    /\ raised = "SystemExit"

\* the two trees have the same menu paths and each menu the same setting names
SameShape ==
    /\ DOMAIN cb_data = DOMAIN gt_data
    /\ \A m \in DOMAIN cb_data : DOMAIN cb_data[m] = DOMAIN gt_data[m]

\* C3: for every menu path of both trees and every setting name of both menus,
\* the diff holds exactly one entry (path, name, current value, template value)
\* when the two values differ and none when they are equal, None included.
\* Stated for two trees of the same shape, where nothing else can end the
\* comparison.
C3_OneEntryPerDifference ==
    (Compared /\ SameShape)
        => /\ raised = "none"
           /\ \A m \in DOMAIN cb_data : \A s \in DOMAIN cb_data[m] :
                Occurrences(diff, DiffEntry(m, s, cb_data[m][s], gt_data[m][s]))
                    = IF cb_data[m][s] # gt_data[m][s] THEN 1 ELSE 0

(***************************************************************************)
(* The claims about the plain-text path of get_bios_data, under SpecParse  *)
(***************************************************************************)
Parsed == pc = "done" /\ file_data # NoFile

OnPlainPath == ~re_search_xml(file_data.text)

\* the blocks of the file: its text without comments, cut at the blank lines
Blocks == re_split(StripComments(file_data.text, baseboard))

IsBlank(b) == \A i \in 1..Len(b) : IsSpace(b[i]) \/ b[i] = NL

Headed(b) == re_search_header(b).found /\ re_search_header(b).group1 # <<>>

SectionName(b) == re_search_header(b).group1

\* the blocks that are bracketed sections
Sections == {i \in 1..Len(Blocks) : Headed(Blocks[i])}

\* the blocks with content and no header
Orphans == {i \in 1..Len(Blocks) : ~Headed(Blocks[i]) /\ ~IsBlank(Blocks[i])}

SectionNames == {SectionName(Blocks[i]) : i \in Sections}

\* C4 as claimed: a file made of N bracketed sections parses to a tree of
\* exactly N top-level keys.
C4_OneKeyPerSection ==
    (Parsed /\ OnPlainPath /\ Orphans = {})
        => (raised = "none" /\ Cardinality(DOMAIN bios_data) = Cardinality(Sections))

\* C4 (amended): a file made of bracketed sections parses to a tree with one
\* top-level key for each distinct section name, so N keys for N sections of
\* pairwise distinct names.
C4_OneKeyPerSectionName ==
    (Parsed /\ OnPlainPath /\ Orphans = {})
        => (raised = "none" /\ DOMAIN bios_data = SectionNames)

C4_Witness ==
    /\ Parsed /\ OnPlainPath /\ Orphans = {}
    /\ Cardinality(Sections) = 2
    /\ SectionNames = {<<"A">>}
    /\ DOMAIN bios_data = {<<"A">>}
    /\ bios_data[<<"A">>] # EmptyDict

\* the indices of v outside every run of two or more whitespace characters
OutsideRuns(v) ==
    {i \in 1..Len(v) :
        \/ ~IsSpace(v[i])
        \/ /\ ~(i > 1 /\ IsSpace(v[i - 1]))
           /\ ~(i < Len(v) /\ IsSpace(v[i + 1]))}

\* v with every run of two or more whitespace characters taken out
WithoutRuns(v) ==
    [n \in 1..Cardinality(OutsideRuns(v)) |->
        v[CHOOSE i \in OutsideRuns(v) :
            Cardinality({j \in OutsideRuns(v) : j <= i}) = n]]

ExampleTree ==
    <<"M", "a", "i", "n">> :>
        (<<"Q", "u", "i", "e", "t", " ", "B", "o", "o", "t">> :> <<"E", "n", "a", "b", "l", "e", "d">>
         @@ <<"P", "o", "s", "t", " ", "E", "r", "r", "o", "r", " ", "P", "a", "u", "s", "e">> :> <<"D", "i", "s", "a", "b", "l", "e", "d">>)

\* C5: in the tree get_bios_data returns, each key=value line of a section
\* gives its key the value with every run of two or more whitespace
\* characters removed (the last line of a key and the last section of a name
\* are the ones that stay); the example of the specification parses as stated.
C5_ValueWithoutWhitespaceRuns ==
    (Parsed /\ OnPlainPath /\ raised = "none")
        => /\ \A i \in Sections :
                (\A j \in Sections : j > i => SectionName(Blocks[j]) # SectionName(Blocks[i]))
                => LET lines == re_findall_settings(Blocks[i])
                       menu == SectionName(Blocks[i])
                   IN  /\ menu \in DOMAIN bios_data
                       /\ DOMAIN bios_data[menu] = {lines[n][1] : n \in 1..Len(lines)}
                       /\ \A n \in 1..Len(lines) :
                            (\A k \in (n + 1)..Len(lines) : lines[k][1] # lines[n][1])
                            => bios_data[menu][lines[n][1]] = WithoutRuns(lines[n][2])
           /\ file_data.text = ExampleText => bios_data = ExampleTree

C5_Witness ==
    /\ Parsed /\ OnPlainPath /\ raised = "none"
    /\ baseboard = "SUPERMICRO"
    /\ <<"A">> \in DOMAIN bios_data
    /\ <<"k">> \in DOMAIN bios_data[<<"A">>]
    /\ bios_data[<<"A">>][<<"k">>] = <<"a", " ", "b", "c">>

\* C6: a block without a header and with content only draws a warning: the
\* parse goes on and returns every section of the file, and nothing of the
\* block.
C6_OrphanBlockIsOnlyWarned ==
    (Parsed /\ OnPlainPath /\ Orphans # {})
        => /\ raised = "none"
           /\ DOMAIN bios_data = SectionNames
           /\ \A i \in Orphans : \E n \in 1..Len(log) : log[n] = Warn("no menu name", Blocks[i])

(***************************************************************************)
(* The claims about the XML path of get_bios_data, under SpecParse         *)
(***************************************************************************)
OnXmlPath == re_search_xml(file_data.text) /\ file_data.xml_root.tag # "ParseError"

NameOf(element) == element.attrib["name"]

\* the top-level menus that are parsed, each the only one of its name
TopMenus ==
    LET top == file_data.xml_root.kids
    IN  {top[i] : i \in {i \in 1..Len(top) :
            /\ top[i].tag = "Menu"
            /\ NameOf(top[i]) # Main
            /\ \A j \in 1..Len(top) :
                 (j # i /\ top[j].tag = "Menu") => NameOf(top[j]) # NameOf(top[i])}}

\* the Setting children of a menu, each the only one of its name
SettingsOf(menu) ==
    {menu.kids[i] : i \in {i \in 1..Len(menu.kids) :
        /\ menu.kids[i].tag = "Setting"
        /\ \A j \in 1..Len(menu.kids) :
             (j # i /\ menu.kids[j].tag = "Setting")
                 => NameOf(menu.kids[j]) # NameOf(menu.kids[i])}}

ValueAttributes == {"selectedOption", "checkedStatus", "settingValue"}

HasValueAttribute(setting) == ValueAttributes \cap DOMAIN setting.attrib # {}

TypeOf(setting) ==
    IF "type" \in DOMAIN setting.attrib THEN setting.attrib["type"] ELSE <<>>

Password == <<"P", "a", "s", "s", "w", "o", "r", "d">>
String == <<"S", "t", "r", "i", "n", "g">>

\* no step of the lookup chain applies to the setting
Unresolvable(setting) ==
    ~HasValueAttribute(setting) /\ TypeOf(setting) \notin {Password, String}

\* the value the returned tree gives the setting of the menu; found = FALSE
\* when the tree has no such entry
Recorded(menu, setting) ==
    IF NameOf(menu) \in DOMAIN bios_data
    THEN IF NameOf(setting) \in DOMAIN bios_data[NameOf(menu)]
         THEN [found |-> TRUE, value |-> bios_data[NameOf(menu)][NameOf(setting)]]
         ELSE [found |-> FALSE, value |-> None]
    ELSE [found |-> FALSE, value |-> None]

\* C7: a Setting whose value no step of the lookup chain resolves is recorded
\* with None and a warning, and the parse goes on: the tree is returned with
\* the other settings and menus of the file.
C7_UnknownSettingIsOnlyWarned ==
    (Parsed /\ OnXmlPath)
        => \A menu \in TopMenus : \A setting \in SettingsOf(menu) :
             Unresolvable(setting)
             => /\ raised = "none"
                /\ Recorded(menu, setting) = [found |-> TRUE, value |-> None]
                /\ \E n \in 1..Len(log) : log[n] = Warn("unknown setting", NameOf(setting))
                /\ \A other \in SettingsOf(menu) :
                     HasValueAttribute(other) => Recorded(menu, other).found

\* the first of the three attributes the setting carries, in the order of the
\* lookup chain
FirstAttribute(setting) ==
    IF "selectedOption" \in DOMAIN setting.attrib THEN setting.attrib["selectedOption"]
    ELSE IF "checkedStatus" \in DOMAIN setting.attrib THEN setting.attrib["checkedStatus"]
    ELSE setting.attrib["settingValue"]

\* C8: in the returned tree a Setting that carries selectedOption, checkedStatus
\* or settingValue has the value of the first of them it carries, in that
\* order, whatever its type and children.
C8_FirstAttributeWins ==
    (Parsed /\ OnXmlPath /\ raised = "none")
        => \A menu \in TopMenus : \A setting \in SettingsOf(menu) :
             HasValueAttribute(setting)
             => Recorded(menu, setting) = [found |-> TRUE, value |-> FirstAttribute(setting)]

C8_Witness ==
    /\ Parsed /\ OnXmlPath /\ raised = "none"
    /\ \E menu \in TopMenus : \E setting \in SettingsOf(menu) :
         /\ ValueAttributes \subseteq DOMAIN setting.attrib
         /\ TypeOf(setting) = String
         /\ \E i \in 1..Len(setting.kids) : setting.kids[i].tag = "StringValue"
         /\ Recorded(menu, setting).value = Enabled

\* the children of the element that carry the tag
ChildrenTagged(element, tag) ==
    {i \in 1..Len(element.kids) : element.kids[i].tag = tag}

\* C9: a Setting without the three attributes has, when its type is String, the
\* text of its StringValue child and, when its type is Password, the text of
\* the HasPassword node below its first child.
C9_ValueByType ==
    (Parsed /\ OnXmlPath /\ raised = "none")
        => \A menu \in TopMenus : \A setting \in SettingsOf(menu) :
             ~HasValueAttribute(setting)
             => /\ (TypeOf(setting) = String /\ ChildrenTagged(setting, "StringValue") # {})
                   => Recorded(menu, setting) =
                        [found |-> TRUE,
                         value |-> setting.kids[Min(ChildrenTagged(setting, "StringValue"))].text]
                /\ (/\ TypeOf(setting) = Password
                    /\ setting.kids # <<>>
                    /\ ChildrenTagged(setting.kids[1], "HasPassword") # {})
                   => Recorded(menu, setting) =
                        [found |-> TRUE,
                         value |-> setting.kids[1].kids[
                                     Min(ChildrenTagged(setting.kids[1], "HasPassword"))].text]

C9_Witness ==
    /\ Parsed /\ OnXmlPath /\ raised = "none"
    /\ \E menu \in TopMenus : \E setting \in SettingsOf(menu) :
         /\ ~HasValueAttribute(setting)
         /\ TypeOf(setting) = String
         /\ Recorded(menu, setting) = [found |-> TRUE, value |-> Abc123]

\* the document without its top-level menus named Main
WithoutMain(root) ==
    [root EXCEPT !.kids = SelectSeq(root.kids,
        LAMBDA e : ~(e.tag = "Menu" /\ NameOf(e) = Main))]

\* C10: the tree returned for an XML file has no key Main and no key below a
\* top-level Main: it is the tree of the document without its top-level menus
\* named Main.
C10_NoTopLevelMain ==
    (Parsed /\ OnXmlPath /\ raised = "none")
        => /\ \A key \in DOMAIN bios_data :
                key # Main /\ ~StartsWith(key, Main \o <<"|">>)
           /\ bios_data = parse_xml(WithoutMain(file_data.xml_root)).bios_data

C10_Witness ==
    /\ Parsed /\ OnXmlPath /\ raised = "none"
    /\ \E i \in 1..Len(file_data.xml_root.kids) :
         LET e == file_data.xml_root.kids[i]
         IN  /\ e.tag = "Menu"
             /\ NameOf(e) = Main
             /\ \E j \in 1..Len(e.kids) : e.kids[j].tag = "Setting"
    /\ Adv \o <<"|">> \o Main \in DOMAIN bios_data

(***************************************************************************)
(* The claims about the shape of the two trees, under SpecCompare          *)
(***************************************************************************)
SameMenuCount == Cardinality(DOMAIN cb_data) = Cardinality(DOMAIN gt_data)

CommonMenus == DOMAIN cb_data \cap DOMAIN gt_data

\* the menu paths of current that template does not have
AbsentMenus == DOMAIN cb_data \ DOMAIN gt_data

\* the menus of both trees whose setting names differ
OneSidedMenus == {m \in CommonMenus : DOMAIN cb_data[m] # DOMAIN gt_data[m]}

\* the menus of both trees that do not hold the same number of settings
UnevenMenus ==
    {m \in CommonMenus : Cardinality(DOMAIN cb_data[m]) # Cardinality(DOMAIN gt_data[m])}

\* the settings of both trees, as pairs <<menu, name>>
CommonSettings ==
    UNION {{<<m, s>> : s \in DOMAIN cb_data[m] \cap DOMAIN gt_data[m]} : m \in CommonMenus}

\* the settings of one tree only, as pairs <<menu, name>>
OneSidedSettings ==
    (UNION {{<<m, s>> : s \in DOMAIN cb_data[m]} : m \in DOMAIN cb_data}
        \cup UNION {{<<m, s>> : s \in DOMAIN gt_data[m]} : m \in DOMAIN gt_data})
    \ CommonSettings

\* a setting of both trees has two different values of which one is None
NoneDiffers ==
    \E p \in CommonSettings :
        /\ cb_data[p[1]][p[2]] # gt_data[p[1]][p[2]]
        /\ None \in {cb_data[p[1]][p[2]], gt_data[p[1]][p[2]]}

\* the first line of the entry of a setting
EntryHead(m, s) == BOLD \o m \o <<" ", "-", ">", " ">> \o s \o <<NL>> \o END

\* diff holds one entry for each setting of both trees whose values differ,
\* and no entry for any other setting
EntriesOfCommonSettingsOnly ==
    /\ \A p \in CommonSettings :
         /\ Occurrences(diff, EntryHead(p[1], p[2]))
              = IF cb_data[p[1]][p[2]] # gt_data[p[1]][p[2]] THEN 1 ELSE 0
         /\ cb_data[p[1]][p[2]] # gt_data[p[1]][p[2]]
              => Occurrences(diff, DiffEntry(p[1], p[2], cb_data[p[1]][p[2]],
                                             gt_data[p[1]][p[2]])) = 1
    /\ \A p \in OneSidedSettings : Occurrences(diff, EntryHead(p[1], p[2])) = 0

\* C11 as claimed: when a menu of both trees does not have the same setting
\* names on the two sides, compare_settings still returns a diff, with entries
\* for the settings of both sides only (stated where no differing value is
\* None, the case of C3).
C11_OneSidedSettingIsSkipped ==
    (Compared /\ SameMenuCount /\ OneSidedMenus # {} /\ ~NoneDiffers)
        => (raised = "none" /\ EntriesOfCommonSettingsOnly)

\* C11 (amended): one-sided settings are passed over only in menus that hold
\* the same number of settings on both sides; a menu of both trees with
\* different numbers of settings ends the comparison by exit() and no diff is
\* returned.  Whenever a diff is returned its entries are those of the
\* settings of both sides.
C11_UnevenMenuIsFatal ==
    (Compared /\ SameMenuCount)
        => /\ UnevenMenus = {} => raised \in {"none", "TypeError"}
           /\ UnevenMenus # {} => (raised \in {"SystemExit", "TypeError"} /\ diff = <<>>)
           /\ raised = "TypeError" => NoneDiffers
           /\ raised = "none" => EntriesOfCommonSettingsOnly

C11_Witness ==
    /\ Compared /\ SameMenuCount /\ raised = "none"
    /\ \E m \in OneSidedMenus \ UnevenMenus :
         \E s \in DOMAIN cb_data[m] \cap DOMAIN gt_data[m] :
            /\ cb_data[m][s] # gt_data[m][s]
            /\ diff = DiffEntry(m, s, cb_data[m][s], gt_data[m][s])

\* the "not found" warnings of line 559, which carry no name
NotFoundWarnings == {n \in 1..Len(log) : log[n] = Warn("menu not found", <<>>)}

MenuEntries(m) ==
    IF m \notin DOMAIN gt_data THEN <<>>
    ELSE Concat([j \in 1..Len(cb_order.settings[m]) |->
            LET s == cb_order.settings[m][j]
            IN  IF s \in DOMAIN gt_data[m] /\ cb_data[m][s] # gt_data[m][s]
                THEN DiffEntry(m, s, cb_data[m][s], gt_data[m][s])
                ELSE <<>>])

\* C13: the diff returned is the entries of the first menu path of current in
\* its iteration order, then those of the second, and so on, each menu's
\* entries in the iteration order of its setting names.
C13_EntriesInIterationOrder ==
    (Compared /\ raised = "none")
        => diff = Concat([i \in 1..Len(cb_order.menus) |-> MenuEntries(cb_order.menus[i])])

C13_Witness ==
    /\ Compared /\ raised = "none"
    /\ \E m1, m2 \in CommonMenus :
         /\ m1 # m2
         /\ MenuEntries(m1) # <<>>
         /\ \E s1, s2 \in DOMAIN cb_data[m2] \cap DOMAIN gt_data[m2] :
              /\ s1 # s2
              /\ cb_data[m2][s1] # gt_data[m2][s1]
              /\ cb_data[m2][s2] # gt_data[m2][s2]
         /\ \E i, j \in 1..Len(cb_order.menus) :
              i < j /\ cb_order.menus[i] = m2 /\ cb_order.menus[j] = m1

(***************************************************************************)
(* The claims about the failures of get_bios_data, under SpecParse         *)
(***************************************************************************)
\* the file could not be read: get_bios_data has ended without contents
Unread == pc = "done" /\ file_data = NoFile

\* C18 as claimed: when the file cannot be read, the IOError of the file
\* source leaves get_bios_data as it is.
C18_IOErrorPropagates == Unread => raised = "IOError"

\* C18 (amended): when the file cannot be read, get_bios_data catches the
\* IOError, reports it through sm.error and ends the program by exit(); no
\* tree is built.
C18_IOErrorBecomesExit ==
    Unread => /\ raised = "SystemExit"
              /\ log = <<Warn("unable to read", <<>>)>>
              /\ bios_data = EmptyDict

C18_Witness == Unread /\ raised = "SystemExit" /\ Len(log) = 1

\* a line with a bracketed header, and a line with a setting
IsHeaderLine(l) ==
    \E i, j \in 1..Len(l) : i < j /\ l[i] = "[" /\ l[j] = "]"

IsSettingLine(l) == \E i \in 1..Len(l) : l[i] = "="

\* the contents are read, are not empty and are of neither dialect: no XML
\* declaration, no bracketed header and no key=value line
NeitherDialect ==
    /\ Parsed
    /\ file_data.text # <<>>
    /\ ~re_search_xml(file_data.text)
    /\ \A n \in 1..Len(Lines(file_data.text)) :
         /\ ~IsHeaderLine(Lines(file_data.text)[n])
         /\ ~IsSettingLine(Lines(file_data.text)[n])

\* C14 as claimed: contents of neither dialect make get_bios_data fail, and no
\* tree is returned.
C14_NeitherDialectFails == NeitherDialect => raised # "none"

\* C14 (amended): contents of neither dialect are parsed as plain text and
\* never fail: every block that is not empty draws the "no menu name" warning
\* and the empty tree is returned.  The only failure by format is an XML
\* declaration followed by a document that is not well-formed, which ends the
\* program by exit().
C14_NeitherDialectIsEmptyTree ==
    /\ NeitherDialect
         => /\ raised = "none"
            /\ bios_data = EmptyDict
            /\ log = [n \in 1..Len(SelectSeq(Blocks, LAMBDA b : b # <<>>)) |->
                        Warn("no menu name", SelectSeq(Blocks, LAMBDA b : b # <<>>)[n])]
    /\ (Parsed /\ file_data = BrokenXmlFile)
         => (raised = "SystemExit" /\ bios_data = EmptyDict)

C14_Witness ==
    /\ NeitherDialect
    /\ raised = "none"
    /\ bios_data = EmptyDict
    /\ Len(log) = 2

(***************************************************************************)
(* The claim about comments on the plain-text path, under SpecParse        *)
(***************************************************************************)
\* the comment markers of the dialect of a board
MarkersOf(board) ==
    IF board = "SUPERMICRO" THEN {<<"#">>, <<"/", "/">>}
    ELSE IF board = "INTEL" THEN {<<";">>}
    ELSE {}

\* the positions of the line l at which a comment marker of the board starts
MarkersIn(l, board) ==
    {i \in 1..Len(l) : \E p \in MarkersOf(board) : StartsWith(Drop(l, i - 1), p)}

\* the line without its comment: what stands before its first marker
WithoutComment(l, board) ==
    IF MarkersIn(l, board) = {} THEN l ELSE Take(l, Min(MarkersIn(l, board)) - 1)

\* the line emptied when it is a comment from its first character on
WithoutFullLineComment(l, board) ==
    IF 1 \in MarkersIn(l, board) THEN <<>> ELSE l

\* the text whose lines are ls
JoinLines(ls) ==
    IF ls = <<>> THEN <<>>
    ELSE Head(ls) \o Concat([n \in 1..(Len(ls) - 1) |-> <<NL>> \o ls[n + 1]])

\* what the plain-text parser gives for a text in which nothing is a comment
ParsedWithoutStripping(text) ==
    LET r == parse_plain(text, "OTHER")
    IN  bios_data = r.bios_data /\ log = r.log /\ raised = r.raised

\* C15 as claimed: the parser sees the file with its full-line comments
\* emptied and every other line as it stands in the file.
C15_OnlyFullLineComments ==
    (Parsed /\ OnPlainPath)
        => ParsedWithoutStripping(
             JoinLines([n \in 1..Len(Lines(file_data.text)) |->
                 WithoutFullLineComment(Lines(file_data.text)[n], baseboard)]))

\* C15 (amended): the parser sees every line of the file cut at the first
\* comment marker of the board's dialect, wherever on the line the marker
\* stands: a full-line comment becomes an empty line and a setting followed by
\* a comment keeps only what stands before the marker.  Lines without a marker
\* are unchanged, and so is every line on a board that is neither Supermicro
\* nor Intel.
C15_CommentsToEndOfLine ==
    (Parsed /\ OnPlainPath)
        => ParsedWithoutStripping(
             JoinLines([n \in 1..Len(Lines(file_data.text)) |->
                 WithoutComment(Lines(file_data.text)[n], baseboard)]))

C15_Witness ==
    /\ Parsed /\ OnPlainPath /\ raised = "none"
    /\ baseboard = "SUPERMICRO"
    /\ \E n \in 1..Len(Lines(file_data.text)) :
         Lines(file_data.text)[n] = <<"#", "c">>
    /\ \E n \in 1..Len(Lines(file_data.text)) :
         Lines(file_data.text)[n] = <<"j", "=", "a", "=", "b", ";", "w">>
    /\ <<"A">> \in DOMAIN bios_data
    /\ bios_data[<<"A">>] = (<<"k">> :> <<"a", " ", "b", "c">>) @@ (<<"j", "=", "a">> :> <<"b", ";", "w">>)

(***************************************************************************)
(* The claim about the shape of the returned tree, under SpecParse         *)
(***************************************************************************)
\* the characters of a str
Alphabet ==
    {"A", "B", "C", "D", "E", "F", "G", "H", "I", "J", "K", "L", "M", "N",
     "O", "P", "Q", "R", "S", "T", "U", "V", "W", "X", "Y", "Z", "a", "b",
     "c", "d", "e", "f", "g", "h", "i", "j", "k", "l", "m", "n", "o", "p",
     "q", "r", "s", "t", "u", "v", "w", "x", "y", "z", "0", "1", "2", "3",
     "4", "5", "6", "7", "8", "9", " ", "!", "#", "$", "%", "&", "+", ",",
     "-", ".", "/", ":", ";", "<", "=", ">", "?", "@", "[", "]", "^", "_",
     "{", "|", "}", "~", "\t"}

\* v is indexed by 1..n, as a str and the None marker are, and not by names,
\* as a mapping is
IsIndexed(v) ==
    {ToString(k) : k \in DOMAIN v} = {ToString(n) : n \in 1..Cardinality(DOMAIN v)}

IsStr(v) ==
    /\ IsIndexed(v)
    /\ \A k \in DOMAIN v : ToString(v[k]) \in {ToString(c) : c \in Alphabet}

\* k is a key of a dictionary of the tree: a str, and not an index
IsName(k) == ToString(k) \notin {ToString(n) : n \in 0..9} /\ IsStr(k)

\* a leaf: a str or None
IsLeaf(v) == IsIndexed(v) /\ (ToString(v) = ToString(None) \/ IsStr(v))

\* C17: the tree get_bios_data returns, on either path, maps each menu path to
\* a mapping from setting names to leaves, and every leaf is a str or None,
\* never a mapping.
C17_TwoLevels ==
    (Parsed /\ raised = "none")
        => \A m \in DOMAIN bios_data :
             /\ IsName(m)
             /\ \A s \in DOMAIN bios_data[m] :
                  IsName(s) /\ IsLeaf(bios_data[m][s])

C17_Witness ==
    /\ Parsed /\ OnXmlPath /\ raised = "none"
    /\ Adv \o <<"|">> \o Main \in DOMAIN bios_data
    /\ Adv \in DOMAIN bios_data
    /\ \E s \in DOMAIN bios_data[Adv] : bios_data[Adv][s] = None
    /\ \E s \in DOMAIN bios_data[Adv] : bios_data[Adv][s] = Disabled

(***************************************************************************)
(* The claim about the keys of the tree of an XML file, under SpecParse    *)
(***************************************************************************)
\* the Menu and the Setting children of an element
MenuChildren(e) == {e.kids[i] : i \in {i \in 1..Len(e.kids) : e.kids[i].tag = "Menu"}}

SettingChildren(e) == {e.kids[i] : i \in {i \in 1..Len(e.kids) : e.kids[i].tag = "Setting"}}

\* the menu e, reached by the path P, and the menus below it, each as the pair
\* <<its path, the menu>>
RECURSIVE MenusBelow(_, _)
MenusBelow(P, e) ==
    {<<P, e>>} \cup UNION {MenusBelow(P \o <<"|">> \o NameOf(k), k) : k \in MenuChildren(e)}

\* the menus of the document outside a top-level Main
MenusOutsideMain ==
    UNION {MenusBelow(NameOf(t), t) :
             t \in {t \in MenuChildren(file_data.xml_root) : NameOf(t) # Main}}

\* C16: the keys of the returned tree are the paths of the menus outside a
\* top-level Main that have a Setting child of their own, and a path that only
\* one menu has maps to the names of exactly that menu's own Setting children.
C16_KeyPerMenuWithSettings ==
    (Parsed /\ OnXmlPath /\ raised = "none")
        => /\ DOMAIN bios_data
                = {pm[1] : pm \in {pm \in MenusOutsideMain : SettingChildren(pm[2]) # {}}}
           /\ \A pm \in MenusOutsideMain :
                (/\ SettingChildren(pm[2]) # {}
                 /\ \A other \in MenusOutsideMain : other[1] = pm[1] => other = pm)
                => /\ pm[1] \in DOMAIN bios_data
                   /\ DOMAIN bios_data[pm[1]] = {NameOf(k) : k \in SettingChildren(pm[2])}


(***************************************************************************)
(* get_gt and get_bios_settings: lines 276-415                             *)
(***************************************************************************)
\* the characters of file names and URLs, in the order of their code points
CodeOrder ==
    <<".", "/", "0", "1", "2", "3", "4", "5", "6", "7", "8", "9", ":", "A", "B", "C", "D", "E", "F", "G", "H", "I", "J", "K", "L", "M", "N", "O", "P", "Q", "R", "S", "T", "U", "V", "W", "X", "Y", "Z", "_", "a", "b", "c", "d", "e", "f", "g", "h", "i", "j", "k", "l", "m", "n", "o", "p", "q", "r", "s", "t", "u", "v", "w", "x", "y", "z">>

Code(c) == CHOOSE i \in 1..Len(CodeOrder) : CodeOrder[i] = c

\* a < b for two Python strings
RECURSIVE StrLess(_, _)
StrLess(a, b) ==
    IF b = <<>> THEN FALSE
    ELSE IF a = <<>> THEN TRUE
    ELSE IF Head(a) = Head(b) THEN StrLess(Tail(a), Tail(b))
    ELSE Code(Head(a)) < Code(Head(b))

LowerCase ==
    <<"a", "b", "c", "d", "e", "f", "g", "h", "i", "j", "k", "l", "m", "n", "o", "p", "q", "r", "s", "t", "u", "v", "w", "x", "y", "z">>

UpperCase ==
    <<"A", "B", "C", "D", "E", "F", "G", "H", "I", "J", "K", "L", "M", "N", "O", "P", "Q", "R", "S", "T", "U", "V", "W", "X", "Y", "Z">>

\* re.IGNORECASE: two characters match when their upper-case forms are equal
IgnoreCase ==
    [c \in {CodeOrder[i] : i \in 1..Len(CodeOrder)} |->
        IF \E k \in 1..Len(LowerCase) : LowerCase[k] = c
        THEN UpperCase[CHOOSE k \in 1..Len(LowerCase) : LowerCase[k] = c]
        ELSE c]

SameChar(c, d, ignorecase) ==
    \/ c = d
    \/ ignorecase /\ c \in DOMAIN IgnoreCase /\ d \in DOMAIN IgnoreCase
                  /\ IgnoreCase[c] = IgnoreCase[d]

\* the literal p matches s at index i
MatchAt(s, i, p, ignorecase) ==
    /\ i >= 1
    /\ i + Len(p) - 1 <= Len(s)
    /\ \A k \in 1..Len(p) : SameChar(s[i + k - 1], p[k], ignorecase)

GOLDEN_TEMPLATE == <<"G", "O", "L", "D", "E", "N", "_", "T", "E", "M", "P", "L", "A", "T", "E">>

DotBios == <<".", "b", "i", "o", "s">>

DotINI == <<".", "I", "N", "I">>

\* where '(\.bios|\.INI)' can end when 'GOLDEN_TEMPLATE.*' began at index i
GtEnds(s, i, ignorecase) ==
    {x[1] + Len(x[2]) - 1 :
        x \in {x \in ((i + Len(GOLDEN_TEMPLATE))..Len(s)) \X {DotBios, DotINI} :
                  /\ MatchAt(s, x[1], x[2], ignorecase)
                  /\ \A k \in i..x[1] : s[k] # NL}}

GtStarts(s, ignorecase) ==
    {i \in 1..Len(s) : MatchAt(s, i, GOLDEN_TEMPLATE, ignorecase) /\ GtEnds(s, i, ignorecase) # {}}

\* re.search('(GOLDEN_TEMPLATE.*(\.bios|\.INI))', s, flags): group 1 of the
\* leftmost, longest match, or None
re_search_gt(s, ignorecase) ==
    IF GtStarts(s, ignorecase) = {} THEN None
    ELSE LET i == Min(GtStarts(s, ignorecase))
         IN  SubSeq(s, i, Max(GtEnds(s, i, ignorecase)))

\* lines 299, 302: re.search('.bios\Z', gt_url) and re.search('.INI\Z', gt_url)
re_search_tail(s, tail) ==
    /\ Len(s) > Len(tail)
    /\ SubSeq(s, Len(s) - Len(tail) + 1, Len(s)) = tail
    /\ s[Len(s) - Len(tail)] # NL

\* line 311: the names re.findall takes from the hrefs of the listing, each
\* href on a line of its own
re_findall_hrefs(hrefs) ==
    LET NoDot(h) == IF StartsWith(h, <<".">>) THEN Tail(h) ELSE h
        NoSlash(h) == IF StartsWith(h, <<"/">>) THEN Tail(h) ELSE h
        Name(h) == NoSlash(NoDot(h))
    IN  {Name(h) : h \in {h \in hrefs :
                             /\ MatchAt(Name(h), 1, GOLDEN_TEMPLATE, TRUE)
                             /\ Len(Name(h)) \in GtEnds(Name(h), 1, TRUE)}}

\* lines 313-315: sorted(gt_list, reverse=True)[0][0]
Latest(gt_list) == CHOOSE n \in gt_list : \A m \in gt_list : m = n \/ StrLess(m, n)

NoTemplateFound == <<"N", "o", " ", "G", "o", "l", "d", "e", "n", " ", "T", "e", "m", "p", "l", "a", "t", "e", " ", "c", "o", "u", "l", "d", " ", "b", "e", " ", "f", "o", "u", "n", "d", " ", "f", "o", "r", " ", "t", "h", "e", " ", "s", "y", "s", "t", "e", "m", ".", ".", ".">>

Leaves(st, errors, printed) ==
    [st EXCEPT !.log = errors, !.stdout = printed, !.raised = "SystemExit"]

\* lines 296-328: the download; st holds self.gt_file and the local gt_data
Download(st, url, board, server) ==
    IF url # None /\ url # <<>>
    THEN IF board = "INTEL" /\ re_search_tail(url, Tail(DotBios))
         THEN Leaves(st, <<Warn("invalid url", "Intel")>>, <<>>)
         ELSE IF board = "SUPERMICRO" /\ re_search_tail(url, Tail(DotINI))
         THEN Leaves(st, <<Warn("invalid url", "Supermicro")>>, <<>>)
         ELSE IF ~server.up
         THEN Leaves(st, <<Warn("could not get the latest Golden Template", <<>>)>>, <<>>)
         ELSE IF re_search_gt(url, TRUE) = None
         THEN Leaves(st, <<Warn("unable to parse Golden Template file", <<>>)>>, <<>>)
         ELSE IF server.file.text = <<>>
         THEN Leaves([st EXCEPT !.gt_file = re_search_gt(url, TRUE)], <<>>, <<NoTemplateFound>>)
         ELSE [st EXCEPT !.gt_data = server.file, !.gt_file = re_search_gt(url, TRUE)]
    ELSE IF ~server.up
         THEN Leaves(st, <<Warn("could not get the latest Golden Template", <<>>)>>, <<>>)
         ELSE IF re_findall_hrefs(server.hrefs) = {}
         THEN Leaves(st, <<>>, <<NoTemplateFound>>)
         ELSE IF server.file.text = <<>>
         THEN Leaves([st EXCEPT !.gt_file = Latest(re_findall_hrefs(server.hrefs))],
                     <<>>, <<NoTemplateFound>>)
         ELSE [st EXCEPT !.gt_data = server.file,
                         !.gt_file = Latest(re_findall_hrefs(server.hrefs))]

\* lines 339-341: the files the removal loop leaves in the directory
RemoveTemplates(dir) ==
    [n \in {n \in DOMAIN dir : re_search_gt(n, FALSE) = None} |-> dir[n]]

\* lines 336-353: the old templates are removed and the new one is written
WriteTemplate(st, write_fails) ==
    IF write_fails
    THEN [st EXCEPT !.dir_files = RemoveTemplates(st.dir_files),
                    !.log = <<Warn("could not save", st.gt_file)>>,
                    !.raised = "SystemExit"]
    ELSE [st EXCEPT !.dir_files = Put(RemoveTemplates(st.dir_files), st.gt_file, st.gt_data)]

get_gt(url, board, server, dir, old_gt_file, write_fails) ==
    LET st == Download([gt_data |-> NoFile, gt_file |-> old_gt_file, dir_files |-> dir,
                        log |-> <<>>, stdout |-> <<>>, raised |-> "none"],
                       url, board, server)
    IN  IF st.raised = "none" THEN WriteTemplate(st, write_fails) ELSE st

\* get_gt, called at the position from and returning to the position to
GetGtStep(from, to) ==
    /\ pc = from
    /\ \E write_fails \in BOOLEAN :
          LET r == get_gt(gt_url, baseboard, jarvis, dir_files, gt_file, write_fails)
          IN  /\ dir_files' = r.dir_files
              /\ gt_file' = r.gt_file
              /\ log' = log \o r.log
              /\ stdout' = stdout \o r.stdout
              /\ raised' = r.raised
              /\ pc' = IF r.raised = "none" THEN to ELSE "done"
    /\ UNCHANGED <<baseboard, file_data, bios_data, cb_data, cb_order, gt_data, diff,
                   current_bios_file, gt_url, jarvis>>

\* line 622: apply_bios calls self.get_gt(gt_url)
ApplyGetGt == GetGtStep("apply_bios", "apply")

(***************************************************************************)
(* get_gt as a state machine: the call apply_bios makes                    *)
(***************************************************************************)
FileOf(lines) == [text |-> TextOf(lines), xml_root |-> NoDocument]

\* a template as Jarvis serves it, and an empty response
ServedFiles ==
    {FileOf(<<>>), FileOf(<< <<"[", "A", "]">>, <<"k", "=", "a">> >>)}

\* what an earlier run left in a file
OldFile == FileOf(<< <<"[", "A", "]">>, <<"k", "=", "o", "l", "d">> >>)

TemplateNames ==
    { <<"G", "O", "L", "D", "E", "N", "_", "T", "E", "M", "P", "L", "A", "T", "E", "_", "1", ".", "b", "i", "o", "s">>,
      <<"G", "O", "L", "D", "E", "N", "_", "T", "E", "M", "P", "L", "A", "T", "E", "_", "2", ".", "b", "i", "o", "s">>,
      <<"g", "o", "l", "d", "e", "n", "_", "t", "e", "m", "p", "l", "a", "t", "e", "_", "3", ".", "b", "i", "o", "s">>,
      <<"G", "O", "L", "D", "E", "N", "_", "T", "E", "M", "P", "L", "A", "T", "E", "_", "4", ".", "I", "N", "I">> }

OtherNames ==
    { <<"n", "o", "t", "e", "s", ".", "t", "x", "t">>,
      <<"G", "O", "L", "D", "E", "N", "_", "T", "E", "M", "P", "L", "A", "T", "E", "_", "5", ".", "b", "i", "o", "s", ".", "b", "a", "k">> }

\* the names the listing of Jarvis can hold
ListedNames == TemplateNames \ {<<"G", "O", "L", "D", "E", "N", "_", "T", "E", "M", "P", "L", "A", "T", "E", "_", "4", ".", "I", "N", "I">>}

Urls ==
    {<<"h", "t", "t", "p", ":", "/", "/", "j", "/">> \o n : n \in TemplateNames \cup OtherNames}

Dirs(names) == UNION {[S -> {OldFile}] : S \in SUBSET names}

Servers(hrefs, files) ==
    {[up |-> u, hrefs |-> h, file |-> f] : u \in BOOLEAN, h \in hrefs, f \in files}

InitGt ==
    /\ pc = "apply_bios"
    /\ baseboard \in Boards
    /\ file_data = NoFile
    /\ bios_data = EmptyDict
    /\ cb_data = EmptyDict
    /\ cb_order = [menus |-> <<>>, settings |-> EmptyDict]
    /\ gt_data = EmptyDict
    /\ diff = <<>>
    /\ log = <<>>
    /\ raised = "none"
    /\ stdout = <<>>
    /\ dir_files \in Dirs(TemplateNames \cup OtherNames)
    /\ gt_file = <<>>
    /\ current_bios_file = <<>>
    /\ gt_url \in {None} \cup Urls
    /\ jarvis \in Servers(IF gt_url = None THEN SUBSET ListedNames ELSE {{}}, ServedFiles)

NextGt == ApplyGetGt

SpecGt == InitGt /\ [][NextGt]_vars


(***************************************************************************)
(* The claim about get_gt, under SpecGt                                    *)
(***************************************************************************)
GetGtReturned == pc = "apply" /\ raised = "none"

\* a file name that get_gt accepts as the name of a Golden Template (lines
\* 307 and 311 search with re.IGNORECASE)
IsTemplateName(n) == re_search_gt(n, TRUE) # None

TemplatesIn(dir) == {n \in DOMAIN dir : IsTemplateName(n)}

\* C20: when get_gt returns, whatever the directory held before and whatever
\* accepted name the download has, the directory holds exactly one Golden
\* Template file: self.gt_file, with the downloaded text; every Golden
\* Template file of before the call is gone.
C20_ExactlyOneTemplate ==
    GetGtReturned =>
        /\ TemplatesIn(dir_files) = {gt_file}
        /\ dir_files[gt_file] = jarvis.file


(***************************************************************************)
(* compare_bios as a state machine: lines 589-602                          *)
(***************************************************************************)
\* a local of compare_bios that has not been assigned
Unbound == <<"unbound">>

current_bios == <<"c", "u", "r", "r", "e", "n", "t", "_", "b", "i", "o", "s">>

\* line 381, with the time of the run written T
bios_file_name == <<"c", "u", "r", "r", "e", "n", "t", "_", "b", "i", "o", "s", "_", "s", "e", "t", "t", "i", "n", "g", "s", "_", "T">>

\* line 383: re.search('current_bios', x, re.IGNORECASE)
re_search_current(x) == \E i \in 1..Len(x) : MatchAt(x, i, current_bios, TRUE)

\* lines 376-415; tool is what sum or syscfg did: the settings file it
\* created, or the exception its run ended with
get_bios_settings(board, dir, old_current_bios_file, tool) ==
    LET kept == [x \in {x \in DOMAIN dir : ~re_search_current(x)} |-> dir[x]]
        name == bios_file_name \o (IF board = "SUPERMICRO" THEN DotBios ELSE DotINI)
    IN  IF board = "OTHER"
        THEN [dir_files |-> kept, current_bios_file |-> old_current_bios_file,
              log |-> <<>>, raised |-> "none"]
        ELSE IF tool.outcome = "OSError"
        THEN [dir_files |-> kept, current_bios_file |-> old_current_bios_file,
              log |-> <<Warn("unable to get current bios settings", board)>>,
              raised |-> "SystemExit"]
        ELSE IF tool.outcome = "CalledProcessError"
        THEN [dir_files |-> kept, current_bios_file |-> old_current_bios_file,
              log |-> <<Warn("unable to acquire current BIOS settings", <<>>)>>,
              raised |-> "SystemExit"]
        ELSE [dir_files |-> Put(kept, name, tool.file), current_bios_file |-> name,
              log |-> <<>>, raised |-> "none"]

\* lines 484-493, then the parse of lines 495-537
get_bios_data_at(path, dir, board) ==
    IF path = <<>>
    THEN [bios_data |-> EmptyDict, log |-> <<Warn("no file specified", <<>>)>>,
          raised |-> "SystemExit"]
    ELSE IF path \notin DOMAIN dir
    THEN [bios_data |-> EmptyDict, log |-> <<Warn("unable to read", <<>>)>>,
          raised |-> "SystemExit"]
    ELSE get_bios_data(dir[path], board)

\* lines 589-595: the position compare_bios reaches when the call at step returns
After_Mutant(step) ==
    CASE step = "get_bios_settings" -> "parse_cb"
      [] step = "parse_cb" -> "get_gt"
      [] step = "get_gt" -> "parse_gt"
      [] step = "parse_gt" -> "compare"

After(step) ==
    CASE step = "get_bios_settings" -> "get_gt"
      [] step = "get_gt" -> "parse_cb"
      [] step = "parse_cb" -> "parse_gt"
      [] step = "parse_gt" -> "compare"

\* the settings files sum and syscfg write and Jarvis serves
SettingsFiles ==
    { FileOf(<< <<"[", "A", "]">>, <<"k", "=", "a">> >>),
      FileOf(<< <<"[", "A", "]">>, <<"k", "=", "b">> >>),
      FileOf(<< <<"[", "A", "]">>, <<"k", "=", "a">>, <<>>, <<"[", "B", "]">>, <<"k", "=", "a">> >>),
      [text |-> ExampleText, xml_root |-> NoDocument],
      [text |-> XmlDeclaration,
       xml_root |-> Element("BiosCfg", EmptyDict, None,
                            <<Menu(Adv, <<Setting(BootMode, {<<"selectedOption", Enabled>>}, <<>>)>>)>>)] }

\* the runs of sum and syscfg
Tools ==
    {[outcome |-> "created", file |-> f] : f \in SettingsFiles}
    \cup {[outcome |-> e, file |-> NoFile] : e \in {"OSError", "CalledProcessError"}}

\* line 589: self.get_bios_settings()
GetBiosSettings ==
    /\ pc = "get_bios_settings"
    /\ \E tool \in Tools :
          LET r == get_bios_settings(baseboard, dir_files, current_bios_file, tool)
          IN  /\ dir_files' = r.dir_files
              /\ current_bios_file' = r.current_bios_file
              /\ log' = log \o r.log
              /\ raised' = r.raised
              /\ pc' = IF r.raised = "none" THEN After("get_bios_settings") ELSE "done"
    /\ UNCHANGED <<baseboard, file_data, bios_data, cb_data, cb_order, gt_data, diff, stdout,
                   gt_file, gt_url, jarvis>>

\* line 590: self.get_gt()
CompareGetGt == GetGtStep("get_gt", After("get_gt"))

\* line 592: cb_data = self.get_bios_data(self.current_bios_file)
GetCurrentData ==
    /\ pc = "parse_cb"
    /\ LET r == get_bios_data_at(current_bios_file, dir_files, baseboard)
       IN  /\ log' = log \o r.log
           /\ raised' = r.raised
           /\ IF r.raised = "none"
              THEN /\ cb_data' = r.bios_data
                   /\ cb_order' \in TreeOrders(r.bios_data)
                   /\ pc' = After("parse_cb")
              ELSE /\ UNCHANGED <<cb_data, cb_order>>
                   /\ pc' = "done"
    /\ UNCHANGED <<baseboard, file_data, bios_data, gt_data, diff, stdout, fs_vars>>

\* line 593: gt_data = self.get_bios_data(self.gt_file)
GetTemplateData ==
    /\ pc = "parse_gt"
    /\ LET r == get_bios_data_at(gt_file, dir_files, baseboard)
       IN  /\ log' = log \o r.log
           /\ raised' = r.raised
           /\ gt_data' = IF r.raised = "none" THEN r.bios_data ELSE gt_data
           /\ pc' = IF r.raised = "none" THEN After("parse_gt") ELSE "done"
    /\ UNCHANGED <<baseboard, file_data, bios_data, cb_data, cb_order, diff, stdout, fs_vars>>

InitBios ==
    /\ pc = "get_bios_settings"
    /\ baseboard \in Boards
    /\ file_data = NoFile
    /\ bios_data = EmptyDict
    /\ cb_data = Unbound
    /\ cb_order = [menus |-> <<>>, settings |-> EmptyDict]
    /\ gt_data = Unbound
    /\ diff = <<>>
    /\ log = <<>>
    /\ raised = "none"
    /\ stdout = <<>>
    /\ dir_files \in Dirs({bios_file_name \o DotBios, <<"G", "O", "L", "D", "E", "N", "_", "T", "E", "M", "P", "L", "A", "T", "E", "_", "1", ".", "b", "i", "o", "s">>})
    /\ gt_file = <<>>
    /\ current_bios_file = <<>>
    /\ gt_url = None
    /\ jarvis \in Servers({{}, {<<"G", "O", "L", "D", "E", "N", "_", "T", "E", "M", "P", "L", "A", "T", "E", "_", "1", ".", "b", "i", "o", "s">>}, {<<"G", "O", "L", "D", "E", "N", "_", "T", "E", "M", "P", "L", "A", "T", "E", "_", "1", ".", "b", "i", "o", "s">>, <<"G", "O", "L", "D", "E", "N", "_", "T", "E", "M", "P", "L", "A", "T", "E", "_", "2", ".", "b", "i", "o", "s">>}}, SettingsFiles \cup {FileOf(<<>>)})

NextBios ==
    \/ GetBiosSettings
    \/ CompareGetGt
    \/ GetCurrentData
    \/ GetTemplateData
    \/ CompareSettings
    \/ PrintNoDifferences
    \/ PrintDifferences

SpecBios == InitBios /\ [][NextBios]_vars

(***************************************************************************)
(* The claim about the order of compare_bios, under SpecBios               *)
(***************************************************************************)
IsBound(v) == ToString(v) # ToString(Unbound)

\* get_bios_settings has returned: the current settings are in their file (on
\* a board that is neither Supermicro nor Intel it gathers nothing)
CurrentGathered ==
    \/ baseboard = "OTHER"
    \/ current_bios_file # <<>> /\ current_bios_file \in DOMAIN dir_files

\* get_gt has returned: the Golden Template is in its file
TemplateGathered == gt_file # <<>> /\ gt_file \in DOMAIN dir_files

\* C19 as stated: gather the current file, parse it, gather the Golden
\* Template, parse it, compare: the current file has been parsed when the
\* Golden Template is gathered, the Golden Template is parsed after the
\* current file, and compare starts after both parses.
C19_ParsedBeforeSecondGather ==
    /\ pc = "get_gt" => IsBound(cb_data)
    /\ IsBound(gt_data) => IsBound(cb_data)
    /\ pc \in {"compare", "report"} => IsBound(cb_data) /\ IsBound(gt_data)

\* C19, amended: gather the current file, gather the Golden Template, parse
\* the current file, parse the Golden Template, compare: both files are
\* gathered before either is parsed, the current file is parsed first, and
\* compare starts after both parses.
C19_GatherBothThenParseBoth ==
    /\ pc = "get_gt" => CurrentGathered /\ ~IsBound(cb_data) /\ ~IsBound(gt_data)
    /\ pc = "parse_cb" => CurrentGathered /\ TemplateGathered
                          /\ ~IsBound(cb_data) /\ ~IsBound(gt_data)
    /\ pc = "parse_gt" => IsBound(cb_data) /\ ~IsBound(gt_data)
    /\ pc \in {"compare", "report"} => IsBound(cb_data) /\ IsBound(gt_data)
    /\ IsBound(cb_data) => CurrentGathered /\ TemplateGathered
    /\ IsBound(gt_data) => IsBound(cb_data)
    /\ stdout # <<>> /\ raised = "none" => IsBound(cb_data) /\ IsBound(gt_data)

\* both files gathered, both parsed, compared and the differences printed
C19_Witness ==
    /\ pc = "done"
    /\ raised = "none"
    /\ baseboard # "OTHER"
    /\ CurrentGathered
    /\ TemplateGathered
    /\ IsBound(cb_data)
    /\ IsBound(gt_data)
    /\ diff # <<>>
    /\ Len(stdout) = 2


(***************************************************************************)
(* The claim about setting lines with several '=', under SpecParse         *)
(***************************************************************************)
\* the index of the last '=' of the line l
LastEq(l) == CHOOSE i \in 1..Len(l) : l[i] = "=" /\ \A j \in (i + 1)..Len(l) : l[j] # "="

BeforeLastEq(l) == [i \in 1..(LastEq(l) - 1) |-> l[i]]

AfterLastEq(l) == [i \in 1..(Len(l) - LastEq(l)) |-> l[LastEq(l) + i]]

SeveralEq(l) == Cardinality({i \in 1..Len(l) : l[i] = "="}) > 1

\* the lines of the block b that hold an '='
SettingLines(b) == {l \in {Lines(b)[n] : n \in 1..Len(Lines(b))} : \E i \in 1..Len(l) : l[i] = "="}

\* the section that gives the menu its settings: the last one of its name
LastSection(menu) == Blocks[Max({i \in Sections : SectionName(Blocks[i]) = menu})]

\* C21: on the plain-text path a setting line with more than one '=' is cut
\* at its last '=': its name is everything before that '=' (earlier '=' and
\* spaces included), its value comes only from the text after it, and no
\* name comes from a cut at an earlier '='.
C21_SplitAtLastEq ==
    (Parsed /\ OnPlainPath /\ raised = "none")
        => \A menu \in SectionNames :
              /\ menu \in DOMAIN bios_data
              /\ DOMAIN bios_data[menu] = {BeforeLastEq(l) : l \in SettingLines(LastSection(menu))}
              /\ \A l \in SettingLines(LastSection(menu)) :
                    SeveralEq(l)
                    => bios_data[menu][BeforeLastEq(l)]
                          \in {WithoutRuns(AfterLastEq(k)) :
                                  k \in {k \in SettingLines(LastSection(menu)) :
                                            BeforeLastEq(k) = BeforeLastEq(l)}}

\* the line ' x = y =z' gives the name ' x = y ' the value 'z'
C21_Witness ==
    /\ Parsed /\ OnPlainPath /\ raised = "none"
    /\ file_data.text = SpacedText
    /\ SeveralEq(Lines(LastSection(<<"S">>))[2])
    /\ bios_data = (<<"S">> :> (<<" ", "x", " ", "=", " ", "y", " ">> :> <<"z">>))

====
